---- MODULE Spec2Model ----
(***************************************************************************)
(* Model of common/src/raf.rs: Raf, a cursor over an in-memory byte       *)
(* buffer with bounds-checked raw reads, typed decoders, string decoders   *)
(* and seek / adv / seek_read positioning.                                 *)
(*                                                                         *)
(* Rust's usize arithmetic is modelled at a reduced word width             *)
(* (USIZE_BITS) because TLC integers are 32-bit; an overflowing + or -     *)
(* panics when the crate is built with overflow checks (debug profile) and *)
(* wraps modulo 2^USIZE_BITS otherwise (release profile).  The profile is  *)
(* the variable overflow_checks, fixed at Init.  A panic ends the run: no  *)
(* operation is enabled once last.kind = "Panic".                          *)
(*                                                                         *)
(* Integers wider than 16 bits are held as sequences of 16-bit limbs, most *)
(* significant limb first; for the signed types the top limb is signed.    *)
(***************************************************************************)
EXTENDS Integers, Sequences, FiniteSets, TLC

VARIABLES data, size, pos, bo, overflow_checks, last

vars == <<data, size, pos, bo, overflow_checks, last>>

\* ---------------------------------------------------------------- bounds
\* Width of the modelled machine word.
USIZE_BITS == 16
\* Every byte sequence over ByteAlphabet up to this length is a buffer.
MaxLen == 2
\* Length of the longer, patterned buffers.
RampLen == 10
\* Arguments reach this far past the end of the buffer.
Slack == 1

USIZE_MOD == 2 ^ USIZE_BITS
USIZE_MAX == USIZE_MOD - 1

\* The bytes of the exhaustive short buffers: the 0x00 terminator and
\* ASCII 'A'.  Bytes above 0x7F occur in LongBuffers.
ByteAlphabet == {0, 65}

Reverse(s) == [i \in 1..Len(s) |-> s[Len(s) + 1 - i]]

\* Bytes start, start+1, ... wrapping at 256: the shape of test_seek's
\* `(0x00..0xFF).collect()`.
Ramp(start, len) == [i \in 1..len |-> (start + i - 1) % 256]

ShortBuffers == UNION {[1..n -> ByteAlphabet] : n \in 0..MaxLen}

LongBuffers ==
    { Ramp(250, RampLen),                    \* 0xFA.. : sign bits set, then a 0x00
      <<65, 66, 0, 67>>,                     \* "AB\0C"
      <<65, 195, 169, 0, 226, 130, 172, 0>> } \* multi-byte UTF-8, twice

Buffers == ShortBuffers \cup LongBuffers

RafByteOrder == {"BE", "LE"}

\* ------------------------------------------------------ results of calls
\* The outcome of one call: what it returned (or that it panicked) and the
\* cursor it left behind.
Ok(ty, v, p)  == [kind |-> "Ok",    err |-> "none", ty |-> ty,     v |-> v,    pos |-> p]
Err(e, p)     == [kind |-> "Err",   err |-> e,      ty |-> "none", v |-> <<>>, pos |-> p]
Panic(p)      == [kind |-> "Panic", err |-> "none", ty |-> "none", v |-> <<>>, pos |-> p]

\* usize `a + b`: the wrapped value, and whether the addition overflowed.
usize_add(a, b) == [v |-> (a + b) % USIZE_MOD, overflow |-> a + b > USIZE_MAX]
\* usize `a - b`.
usize_sub(a, b) == [v |-> (a - b + USIZE_MOD) % USIZE_MOD, overflow |-> a < b]

\* &data[from..to]: panics unless from <= to <= data.len().
slice_ok(d, from, to) == from <= to /\ to <= Len(d)
slice(d, from, to) == SubSeq(d, from + 1, to)

\* String::from_utf8 accepts exactly the well-formed UTF-8 sequences.
RECURSIVE utf8_valid(_)
utf8_valid(b) ==
    IF b = <<>> THEN TRUE
    ELSE LET n == Len(b)
             c == b[1]
             cont(i) == i <= n /\ b[i] >= 128 /\ b[i] <= 191
             second(lo, hi) == 2 <= n /\ b[2] >= lo /\ b[2] <= hi
             rest(k) == SubSeq(b, k + 1, n)
         IN  IF c <= 127 THEN utf8_valid(rest(1))
             ELSE IF c >= 194 /\ c <= 223
                  THEN cont(2) /\ utf8_valid(rest(2))
             ELSE IF c = 224
                  THEN second(160, 191) /\ cont(3) /\ utf8_valid(rest(3))
             ELSE IF (c >= 225 /\ c <= 236) \/ c = 238 \/ c = 239
                  THEN cont(2) /\ cont(3) /\ utf8_valid(rest(3))
             ELSE IF c = 237
                  THEN second(128, 159) /\ cont(3) /\ utf8_valid(rest(3))
             ELSE IF c = 240
                  THEN second(144, 191) /\ cont(3) /\ cont(4) /\ utf8_valid(rest(4))
             ELSE IF c >= 241 /\ c <= 243
                  THEN cont(2) /\ cont(3) /\ cont(4) /\ utf8_valid(rest(4))
             ELSE IF c = 244
                  THEN second(128, 143) /\ cont(3) /\ cont(4) /\ utf8_valid(rest(4))
             ELSE FALSE

\* ------------------------------------------------------------ Raf methods
\* A Raf value: the struct's four fields.
Raf(d, s, p, b) == [data |-> d, size |-> s, pos |-> p, bo |-> b]

\* Raf::from_bytes: clone the data, size = data.len(), pos = 0.
from_bytes(d, b) == Raf(d, Len(d), 0, b)

\* Raf::read_bytes.  oc: built with overflow checks.
read_bytes(r, num_bytes, oc) ==
    LET sum == usize_add(r.pos, num_bytes)
        end == usize_sub(sum.v, 1)
    IN  IF oc /\ (sum.overflow \/ end.overflow) THEN Panic(r.pos)
        ELSE IF end.v > r.size THEN Err("BufferOverflow", r.pos)
        ELSE IF ~slice_ok(r.data, r.pos, sum.v) THEN Panic(r.pos)
        ELSE Ok("bytes", slice(r.data, r.pos, sum.v), sum.v)

\* Raf::seek.
seek(r, p) == [r EXCEPT !.pos = p]

\* adv without its bounds check.
adv_unchecked(r, x, oc) == Ok("unit", <<>>, usize_add(r.pos, x).v)

\* Raf::adv.
adv(r, x, oc) ==
    LET sum == usize_add(r.pos, x)
    IN  IF oc /\ sum.overflow THEN Panic(r.pos)
        ELSE IF sum.v > r.size THEN Err("StartOutOfRange", r.pos)
        ELSE Ok("unit", <<>>, sum.v)

\* Raf::read_byte.
read_byte(r, oc) ==
    IF r.pos > r.size THEN Err("StartOutOfRange", r.pos)
    ELSE IF ~(r.pos < Len(r.data)) THEN Panic(r.pos)
    ELSE Ok("u8", <<r.data[r.pos + 1]>>, r.pos + 1)

\* Raf::read_u8.
read_u8(r, oc) == read_byte(r, oc)

\* Raf::read_i8: `x as i8`.
read_i8(r, oc) ==
    LET o == read_byte(r, oc)
    IN  IF o.kind = "Ok"
        THEN Ok("i8", <<IF o.v[1] >= 128 THEN o.v[1] - 256 ELSE o.v[1]>>, o.pos)
        ELSE o

\* byteorder::BigEndian::read_uN over a buffer of w bytes.
BigEndian_read(buf, w) ==
    [j \in 1..(w \div 2) |-> buf[2 * j - 1] * 256 + buf[2 * j]]

\* byteorder::LittleEndian::read_uN over a buffer of w bytes.
LittleEndian_read(buf, w) ==
    [j \in 1..(w \div 2) |-> buf[w - 2 * j + 2] * 256 + buf[w - 2 * j + 1]]

\* The signed readers: the same bits read as two's complement.
as_signed(limbs) ==
    [j \in 1..Len(limbs) |->
        IF j = 1 /\ limbs[j] >= 32768 THEN limbs[j] - 65536 ELSE limbs[j]]

\* read_primitive with func_le and func_be exchanged.
read_primitive_swapped(r, w, ty, signed, oc) ==
    LET o == read_bytes(r, w, oc)
        conv(buf) == IF r.bo = "BE" THEN LittleEndian_read(buf, w)
                                    ELSE BigEndian_read(buf, w)
    IN  IF o.kind = "Ok"
        THEN Ok(ty, IF signed THEN as_signed(conv(o.v)) ELSE conv(o.v), o.pos)
        ELSE o

\* Raf::read_primitive.
read_primitive(r, w, ty, signed, oc) ==
    LET o == read_bytes(r, w, oc)
        conv(buf) == IF r.bo = "BE" THEN BigEndian_read(buf, w)
                                    ELSE LittleEndian_read(buf, w)
    IN  IF o.kind = "Ok"
        THEN Ok(ty, IF signed THEN as_signed(conv(o.v)) ELSE conv(o.v), o.pos)
        ELSE o

read_f32(r, oc) == read_primitive(r, 4, "f32", FALSE, oc)
read_u64(r, oc) == read_primitive(r, 8, "u64", FALSE, oc)
read_i64(r, oc) == read_primitive(r, 8, "i64", TRUE, oc)
read_u32(r, oc) == read_primitive(r, 4, "u32", FALSE, oc)
read_i32(r, oc) == read_primitive(r, 4, "i32", TRUE, oc)
read_u16(r, oc) == read_primitive(r, 2, "u16", FALSE, oc)
read_i16(r, oc) == read_primitive(r, 2, "i16", TRUE, oc)

\* The loop of read_cstr pushing every byte, the terminator included.
RECURSIVE cstr_loop_keep_nul(_, _, _)
cstr_loop_keep_nul(r, bytes, oc) ==
    LET o == read_u8(r, oc)
    IN  IF o.kind # "Ok" THEN Panic(o.pos)
        ELSE IF o.v[1] = 0
             THEN IF utf8_valid(Append(bytes, 0))
                  THEN Ok("String", Append(bytes, 0), o.pos)
                  ELSE Err("StrParseError", o.pos)
        ELSE cstr_loop_keep_nul([r EXCEPT !.pos = o.pos], Append(bytes, o.v[1]), oc)

\* The loop of Raf::read_cstr; `bytes` is the accumulator.  A failed
\* read_u8 is unwrapped with expect(), which panics.
RECURSIVE cstr_loop(_, _, _)
cstr_loop(r, bytes, oc) ==
    LET o == read_u8(r, oc)
    IN  IF o.kind # "Ok" THEN Panic(o.pos)
        ELSE IF o.v[1] = 0
             THEN IF utf8_valid(bytes) THEN Ok("String", bytes, o.pos)
                                       ELSE Err("StrParseError", o.pos)
        ELSE cstr_loop([r EXCEPT !.pos = o.pos], Append(bytes, o.v[1]), oc)

\* Raf::read_cstr.
read_cstr(r, oc) == cstr_loop(r, <<>>, oc)

\* Raf::read_string.
read_string(r, len, oc) ==
    LET o == read_bytes(r, len, oc)
    IN  IF o.kind # "Ok" THEN o
        ELSE IF utf8_valid(o.v) THEN Ok("String", o.v, o.pos)
        ELSE Err("StrParseError", o.pos)

\* The zero-argument decoders, the functions seek_read can be handed.
Decoders == {"read_byte", "read_u8", "read_i8", "read_u16", "read_i16",
             "read_u32", "read_i32", "read_u64", "read_i64", "read_f32",
             "read_cstr"}

\* func(self) for a decoder named f.
call(f, r, oc) ==
    CASE f = "read_byte" -> read_byte(r, oc)
      [] f = "read_u8"   -> read_u8(r, oc)
      [] f = "read_i8"   -> read_i8(r, oc)
      [] f = "read_u16"  -> read_u16(r, oc)
      [] f = "read_i16"  -> read_i16(r, oc)
      [] f = "read_u32"  -> read_u32(r, oc)
      [] f = "read_i32"  -> read_i32(r, oc)
      [] f = "read_u64"  -> read_u64(r, oc)
      [] f = "read_i64"  -> read_i64(r, oc)
      [] f = "read_f32"  -> read_f32(r, oc)
      [] f = "read_cstr" -> read_cstr(r, oc)

\* seek_read that forgets to seek.
seek_read_noseek(r, p, f, oc) == call(f, r, oc)

\* Raf::seek_read.
seek_read(r, p, f, oc) == call(f, seek(r, p), oc)

\* ------------------------------------------------------------------ state
Self == Raf(data, size, pos, bo)

\* Arguments tried: everything up to Slack past the end, and the top of
\* the machine word.
Args == (0..(size + Slack)) \cup {USIZE_MAX}

Init ==
    /\ \E d \in Buffers, b \in RafByteOrder :
          LET r == from_bytes(d, b)
          IN  /\ data = r.data
              /\ size = r.size
              /\ pos = r.pos
              /\ bo = r.bo
    /\ overflow_checks \in BOOLEAN
    /\ last = [op |-> "from_bytes", arg |-> 0, f |-> "none", pre |-> 0,
               kind |-> "Ok", err |-> "none", ty |-> "Raf", v |-> <<>>]

\* One call: op(arg) (or seek_read(arg, f)) with outcome o.
Step(op, arg, f, o) ==
    /\ last.kind # "Panic"
    /\ pos' = o.pos
    /\ last' = [op |-> op, arg |-> arg, f |-> f, pre |-> pos,
                kind |-> o.kind, err |-> o.err, ty |-> o.ty, v |-> o.v]
    /\ UNCHANGED <<data, size, bo, overflow_checks>>

ReadBytes  == \E n \in Args : Step("read_bytes", n, "none", read_bytes(Self, n, overflow_checks))
ReadString == \E n \in Args : Step("read_string", n, "none", read_string(Self, n, overflow_checks))
Seek       == \E p \in Args : Step("seek", p, "none", Ok("unit", <<>>, seek(Self, p).pos))
Adv        == \E x \in Args : Step("adv", x, "none", adv(Self, x, overflow_checks))
SeekRead   == \E p \in Args, f \in Decoders :
                 Step("seek_read", p, f, seek_read(Self, p, f, overflow_checks))
ReadByte   == Step("read_byte", 0, "none", read_byte(Self, overflow_checks))
ReadU8     == Step("read_u8",   0, "none", read_u8(Self, overflow_checks))
ReadI8     == Step("read_i8",   0, "none", read_i8(Self, overflow_checks))
ReadU16    == Step("read_u16",  0, "none", read_u16(Self, overflow_checks))
ReadI16    == Step("read_i16",  0, "none", read_i16(Self, overflow_checks))
ReadU32    == Step("read_u32",  0, "none", read_u32(Self, overflow_checks))
ReadI32    == Step("read_i32",  0, "none", read_i32(Self, overflow_checks))
ReadU64    == Step("read_u64",  0, "none", read_u64(Self, overflow_checks))
ReadI64    == Step("read_i64",  0, "none", read_i64(Self, overflow_checks))
ReadF32    == Step("read_f32",  0, "none", read_f32(Self, overflow_checks))
ReadCstr   == Step("read_cstr", 0, "none", read_cstr(Self, overflow_checks))

Next ==
    \/ ReadBytes
    \/ ReadString
    \/ Seek
    \/ Adv
    \/ SeekRead
    \/ ReadByte
    \/ ReadU8
    \/ ReadI8
    \/ ReadU16
    \/ ReadI16
    \/ ReadU32
    \/ ReadI32
    \/ ReadU64
    \/ ReadI64
    \/ ReadF32
    \/ ReadCstr

Spec == Init /\ [][Next]_vars

TypeOK ==
    /\ data \in Buffers
    /\ size = Len(data)
    /\ pos \in 0..USIZE_MAX
    /\ bo \in RafByteOrder
    /\ overflow_checks \in BOOLEAN
    /\ last.kind \in {"Ok", "Err", "Panic"}

\* ------------------------------------------------------------- properties
\* The decoder a state's last call ran, and the position it ran at: for
\* seek_read(p, f) that is f at p.
CalledFn == IF last.op = "seek_read" THEN last.f ELSE last.op
CalledAt == IF last.op = "seek_read" THEN last.arg ELSE last.pre

\* What the last call returned and where it left the cursor.
Outcome == [kind |-> last.kind, err |-> last.err, ty |-> last.ty, v |-> last.v, pos |-> pos]

ByteReaders == {"read_byte", "read_u8", "read_i8"}
IntDecoders == {"read_u16", "read_i16", "read_u32", "read_i32", "read_u64", "read_i64"}
SignedDecoders == {"read_i16", "read_i32", "read_i64"}
ReadOps == {"read_bytes", "read_string"} \cup Decoders
SeekOps == {"seek", "seek_read"}

Width(f) == CASE f \in {"read_u16", "read_i16"} -> 2
              [] f \in {"read_u32", "read_i32", "read_f32"} -> 4
              [] f \in {"read_u64", "read_i64"} -> 8

\* data[from..to), 0-based and half open.
Range(from, to) == SubSeq(data, from + 1, to)

\* Is there a 0x00 at index >= p, and the first such index (0-based).
HasNul(p) == \E k \in p..(Len(data) - 1) : data[k + 1] = 0
FirstNul(p) == CHOOSE k \in p..(Len(data) - 1) :
                   /\ data[k + 1] = 0
                   /\ \A j \in p..(k - 1) : data[j + 1] # 0

\* The bytes of an integer held as limbs, most significant byte first.
MsbBytes(limbs) ==
    [i \in 1..(2 * Len(limbs)) |->
        LET l == limbs[(i + 1) \div 2]
            u == IF l < 0 THEN l + 65536 ELSE l
        IN  IF i % 2 = 1 THEN u \div 256 ELSE u % 256]

\* An integer written out in byte order b.
Encode(limbs, b) == IF b = "BE" THEN MsbBytes(limbs) ELSE Reverse(MsbBytes(limbs))

\* C1: position never exceeds length except where an explicit seek (seek, or
\* the seek of seek_read) put it; no read or advance moves it from within
\* the buffer to beyond it; and a read issued while position is beyond
\* length fails and leaves position where it was.
C1_PositionInvariant ==
    [][ /\ pos' > size =>
              \/ last'.op \in SeekOps /\ pos' = last'.arg
              \/ pos > size /\ pos' = pos
        /\ (pos <= size /\ last'.op \notin SeekOps) => pos' <= size
        /\ (pos > size /\ last'.op \in ReadOps) =>
              last'.kind # "Ok" /\ pos' = pos ]_vars

\* C1 witness: a seek went beyond the end and the read after it failed.
C1_Witness ==
    /\ last.op = "read_bytes"
    /\ last.pre > size
    /\ last.kind = "Err"
    /\ pos = last.pre

\* C2: from_bytes(b) followed by read_bytes(n), for every 0 <= n <= len(b),
\* succeeds, returns b[0..n) and leaves position at n.
C2_FromBytesReadBytes ==
    [][ (last.op = "from_bytes" /\ last'.op = "read_bytes" /\ last'.arg <= Len(data)) =>
            /\ last'.kind = "Ok"
            /\ last'.v = SubSeq(data, 1, last'.arg)
            /\ pos' = last'.arg ]_vars

\* C3: read_bytes(n) with position + n > length returns BufferOverflow; it
\* never returns bytes and never panics.
C3_ReadBytesOverflow ==
    (last.op = "read_bytes" /\ last.pre + last.arg > size) =>
        last.kind = "Err" /\ last.err = "BufferOverflow"

\* C4: read_byte / read_u8 / read_i8 return data[position] and advance by
\* one when position < length, and return StartOutOfRange, without a panic,
\* when position >= length.
C4_ReadByte ==
    (last.op \in ByteReaders) =>
        IF last.pre < size
        THEN /\ last.kind = "Ok"
             /\ pos = last.pre + 1
             /\ last.v = <<IF last.op = "read_i8" /\ data[last.pre + 1] >= 128
                           THEN data[last.pre + 1] - 256
                           ELSE data[last.pre + 1]>>
        ELSE last.kind = "Err" /\ last.err = "StartOutOfRange"

\* C5: seek(p) sets position to p unvalidated, and the read issued right
\* after it (read_byte, read_bytes(n) or a typed decoder) reads the bytes
\* from index p when they exist and otherwise returns BufferOverflow or
\* StartOutOfRange; it never panics.
C5_SeekThenRead ==
    [][ /\ last'.op = "seek" => pos' = last'.arg
        /\ (last.op = "seek" /\ last'.op \in ByteReaders \cup IntDecoders \cup {"read_bytes", "read_f32"}) =>
              LET p == last.arg
                  n == IF last'.op = "read_bytes" THEN last'.arg
                       ELSE IF last'.op \in ByteReaders THEN 1
                       ELSE Width(last'.op)
              IN  IF p + n <= size
                  THEN /\ last'.kind = "Ok"
                       /\ pos' = p + n
                       /\ last'.op = "read_bytes" => last'.v = Range(p, p + n)
                  ELSE /\ last'.kind = "Err"
                       /\ last'.err \in {"BufferOverflow", "StartOutOfRange"} ]_vars

\* C6: adv(d) with position + d > length (the mathematical sum) returns
\* StartOutOfRange and leaves position unchanged; otherwise it succeeds and
\* sets position to position + d.
C6_Adv ==
    (last.op = "adv") =>
        IF last.pre + last.arg > size
        THEN last.kind = "Err" /\ last.err = "StartOutOfRange" /\ pos = last.pre
        ELSE last.kind = "Ok" /\ pos = last.pre + last.arg

\* C7 as stated: when a 0x00 exists at some index k >= position, read_cstr
\* at p returns the bytes data[p..k) for the first such k and leaves
\* position at k + 1.
C7_ReadCstrOriginal ==
    (CalledFn = "read_cstr" /\ HasNul(CalledAt)) =>
        /\ last.kind = "Ok"
        /\ last.v = Range(CalledAt, FirstNul(CalledAt))
        /\ pos = FirstNul(CalledAt) + 1

\* C7 amended: when a 0x00 exists at some index k >= position, read_cstr at
\* p leaves position at k + 1 for the first such k, and returns the bytes
\* data[p..k) as a string when they are valid UTF-8 and StrParseError when
\* they are not.
C7_ReadCstr ==
    (CalledFn = "read_cstr" /\ HasNul(CalledAt)) =>
        LET k == FirstNul(CalledAt)
        IN  /\ pos = k + 1
            /\ IF utf8_valid(Range(CalledAt, k))
               THEN last.kind = "Ok" /\ last.ty = "String" /\ last.v = Range(CalledAt, k)
               ELSE last.kind = "Err" /\ last.err = "StrParseError"

\* C7 witness: "AB\0C" read from 0 gives "AB" and position 3.
C7_Witness ==
    /\ last.op = "read_cstr"
    /\ data = <<65, 66, 0, 67>>
    /\ last.pre = 0
    /\ last.kind = "Ok"
    /\ last.v = <<65, 66>>
    /\ pos = 3

\* C8: when no 0x00 exists at or after position, read_cstr returns a typed
\* error to its caller; it does not panic.
C8_ReadCstrUnterminated ==
    (CalledFn = "read_cstr" /\ ~HasNul(CalledAt)) =>
        last.kind = "Err"

\* C9: seek_read(p, f) is equivalent to seek(p) followed by a separate call
\* of f: same result and same final position, from every starting
\* position; and seek_read(p, read_i32) with four bytes left at p succeeds.
C9_SeekReadEquivalence ==
    [][ /\ (last.op = "seek" /\ last'.op \in Decoders) =>
              Outcome' = seek_read(Raf(data, size, last.pre, bo), last.arg,
                                   last'.op, overflow_checks)
        /\ (last'.op = "seek_read") =>
              Outcome' = call(last'.f, seek(Self, last'.arg), overflow_checks)
        /\ (last'.op = "seek_read" /\ last'.f = "read_i32" /\ last'.arg + 4 <= size) =>
              last'.kind = "Ok" /\ pos' = last'.arg + 4 ]_vars

\* C9 witness: seek_read(2, read_i32) succeeded over a buffer of RampLen bytes.
C9_Witness ==
    /\ last.op = "seek_read"
    /\ last.f = "read_i32"
    /\ last.arg = 2
    /\ last.pre # 2
    /\ Len(data) >= RampLen
    /\ last.kind = "Ok"
    /\ pos = 6

\* C10: a 2-, 4- or 8-byte integer decoder called at p with p + w <= length
\* succeeds, leaves position at p + w and returns the integer whose bytes,
\* most significant first, are data[p..p+w) for a BigEndian buffer and
\* data[p..p+w) reversed for a LittleEndian one (signed types: the same bits
\* as two's complement); writing the value back in the buffer's order gives
\* the bytes read; and the byte order never changes.
C10_IntDecoders ==
    /\ [][bo' = bo]_vars
    /\ [] ( (CalledFn \in IntDecoders /\ CalledAt + Width(CalledFn) <= size) =>
              LET p == CalledAt
                  w == Width(CalledFn)
                  bytes == Range(p, p + w)
              IN  /\ last.kind = "Ok"
                  /\ pos = p + w
                  /\ Len(last.v) = w \div 2
                  /\ MsbBytes(last.v) = (IF bo = "BE" THEN bytes ELSE Reverse(bytes))
                  /\ Encode(last.v, bo) = bytes
                  /\ \A j \in 1..Len(last.v) :
                        IF j = 1 /\ CalledFn \in SignedDecoders
                        THEN last.v[j] \in -32768..32767
                        ELSE last.v[j] \in 0..65535
                  /\ (CalledFn \in SignedDecoders) => (last.v[1] < 0 <=> MsbBytes(last.v)[1] >= 128) )

\* C10 witness: a LittleEndian buffer decoded a negative i32 whose bytes
\* are not a palindrome.
C10_Witness ==
    /\ last.op = "read_i32"
    /\ bo = "LE"
    /\ last.kind = "Ok"
    /\ last.v[1] < 0
    /\ Range(last.pre, last.pre + 4) # Reverse(Range(last.pre, last.pre + 4))
====
